---- MODULE Spec2Model ----
(***************************************************************************)
(* Model of the playlist engine of riptv (src/src/playlist.rs).            *)
(*                                                                         *)
(* Text is modelled lexically: a line is a sequence of tokens, a token is  *)
(* either one of the literals the code looks for ("#EXTINF:", "http", the  *)
(* attribute keys, the comma, the double quote, the blank) or a word that  *)
(* contains none of them.  A playlist text is the sequence of its lines,   *)
(* which is what content.lines() hands to both parsing strategies.         *)
(* Option<T> is a sequence of length at most one: None is <<>>, Some(v)    *)
(* is <<v>>.  Positions stored in the indices are 0-based as in the code.  *)
(*                                                                         *)
(* Around the engine: the pure functions of src/src/utils.rs, the player   *)
(* loop of src/src/player.rs and the recent-channel list of                *)
(* src/src/config.rs, each under a specification of its own.               *)
(***************************************************************************)
EXTENDS Integers, Sequences, FiniteSets, TLC

VARIABLES channels, channel_map, groups, parallel_processing, result, loads, content,
          call, answer,
          current_player_process, history, recent_channels, running, pc, spawned,
          retry

vars == <<channels, channel_map, groups, parallel_processing, result, loads, content,
          call, answer,
          current_player_process, history, recent_channels, running, pc, spawned,
          retry>>

\* What lies outside the parser: the player's child process and history, the
\* configuration's recent channels, the shutdown flag, where the interactive
\* loop stands and how many player processes have been started.
app_state == <<current_player_process, history, recent_channels, running, pc, spawned>>

\* ---------------------------------------------------------------- bounds
MaxLines == 4
MaxLoads == 2
\* The matcher's scores range over 0..MaxScore.
MaxScore == 2
\* Durations are of 0..MaxSeconds seconds.
MaxSeconds == 3700
\* Names to sanitize have at most MaxNameLen characters.
MaxNameLen == 3
\* Strings to truncate have at most MaxStrLen characters, to at most MaxStrLen + 1.
MaxStrLen == 4
\* A run of the player starts at most MaxSpawns player processes.
MaxSpawns == 2
\* Channel names given to the recent lists are 1..MaxNames, of which
\* 1..MaxRepeated are given again and again.
MaxNames == 52
MaxRepeated == 1
\* retry_async is called with max_attempts in 0..MaxAttempts.
MaxAttempts == 4

\* ---------------------------------------------------------------- constants
\* The lengths the code cuts the recent channels and the history to.
RecentLimit == 20
HistoryLimit == 50

\* ---------------------------------------------------------------- tokens
EXTINF == "#EXTINF:"
HTTP == "http"
Comma == ","
Quote == "\""
Space == " "

TvgName == "tvg-name="
TvgLogo == "tvg-logo="
GroupTitle == "group-title="
TvgLanguage == "tvg-language="
TvgCountry == "tvg-country="
TvgId == "tvg-id="

\* The attribute keys in the order the composite pattern lists them.
AttrKeys == <<TvgName, TvgLogo, GroupTitle, TvgLanguage, TvgCountry, TvgId>>

None == <<>>
Some(v) == <<v>>

\* ---------------------------------------------------------------- inputs
UrlLine == <<HTTP, "://x/y">>
NotUrlLine == <<"not-a-url">>
SimpleLine == <<EXTINF, "-1", Comma, "Foo">>
AttrLine == <<EXTINF, "-1", Comma, TvgName, Quote, "Foo", Quote, Space,
              GroupTitle, Quote, "News", Quote, Comma, "Foo", Space, "HD">>
SportsLine == <<EXTINF, "-1", Comma, GroupTitle, Quote, "Sports", Quote, Space, "Bar">>
NoCommaLine == <<EXTINF, "-1">>

LinePool == {UrlLine, NotUrlLine, SimpleLine, AttrLine, SportsLine, NoCommaLine}

\* The three playlists section 8 of the specification spells out.
PairingExample == << <<EXTINF, "-1", Space, TvgName, Quote, "Foo", Quote, Space,
                       GroupTitle, Quote, "News", Quote, Comma, "Foo", Space, "HD">>,
                     <<HTTP, "://x/y">> >>
FallbackExample == << <<EXTINF, "-1", Comma, "Simple", Space, "Channel">>,
                      <<HTTP, "://a/b">> >>
MalformedExample == << <<EXTINF, "-1", Comma, "Bad", Space, "Entry">>,
                       <<"not-a-url">> >>

SpecExamples == {PairingExample, FallbackExample, MalformedExample}

\* A longer text: three channels, two of them with the same name, group,
\* language and country under the parallel strategy.
LocaleLine == <<EXTINF, "-1", Comma, GroupTitle, Quote, "Sports", Quote, Space,
                TvgLanguage, Quote, "en", Quote, Space,
                TvgCountry, Quote, "US", Quote, Space, "Baz">>
ThreeChannels == <<UrlLine, SimpleLine, UrlLine, LocaleLine, UrlLine, LocaleLine>>


\* A url line with a blank at its end, and a text with two different urls.
PaddedUrlLine == <<HTTP, "://x/y", Space>>
PaddedExample == <<PaddedUrlLine, SimpleLine>>
TwoUrls == <<UrlLine, SimpleLine, <<HTTP, "://a/b">>, SportsLine>>

\* Metadata lines whose name is in question: nothing after the comma, an
\* empty tvg-name, attributes before the comma and a comma inside the label.
EmptyLabelLine == <<EXTINF, "-1", Comma>>
EmptyTvgNameLine == <<EXTINF, "-1", Comma, TvgName, Quote, Quote, Space, "Foo">>
TwoCommaLine == <<EXTINF, "-1", Space, GroupTitle, Quote, "News", Quote, Comma,
                  "Foo", Comma, Space, "HD">>
NameTexts ==
    {<<UrlLine, EmptyLabelLine>>, <<UrlLine, EmptyTvgNameLine>>, <<UrlLine, TwoCommaLine>>}

LongTexts == {ThreeChannels, PaddedExample, TwoUrls} \cup NameTexts


Playlists == UNION {[1..n -> LinePool] : n \in 0..MaxLines} \cup SpecExamples \cup LongTexts

\* ---------------------------------------------------------------- str helpers
starts_with(line, tok) == Len(line) > 0 /\ line[1] = tok

\* str::find for a one-token needle: the first position, 0 when absent.
find(line, tok) ==
    IF \E i \in 1..Len(line) : line[i] = tok
    THEN CHOOSE i \in 1..Len(line) : line[i] = tok /\ \A j \in 1..(i - 1) : line[j] # tok
    ELSE 0

RECURSIVE trim_start(_)
trim_start(s) == IF Len(s) > 0 /\ s[1] = Space THEN trim_start(Tail(s)) ELSE s

RECURSIVE trim_end(_)
trim_end(s) ==
    IF Len(s) > 0 /\ s[Len(s)] = Space THEN trim_end(SubSeq(s, 1, Len(s) - 1)) ELSE s

trim(s) == trim_end(trim_start(s))

\* ---------------------------------------------------------------- Channel
Channel_new(name, url) ==
    [name |-> name, url |-> url, group |-> None, logo |-> None,
     language |-> None, country |-> None, tvg_id |-> None]

Channel_with_metadata(name, url, group, logo, language, country, tvg_id) ==
    [name |-> name, url |-> url, group |-> group, logo |-> logo,
     language |-> language, country |-> country, tvg_id |-> tvg_id]

\* ---------------------------------------------------------------- pattern
UnknownChannel == <<"Unknown", Space, "Channel">>

Max(S) == CHOOSE x \in S : \A y \in S : y <= x

\* The quote closing the value opened by the quote at `open`: the next quote
\* after it ([^"]* cannot cross a quote), 0 when there is none.
closing_quote(line, open) ==
    IF \E q \in (open + 1)..Len(line) : line[q] = Quote
    THEN CHOOSE q \in (open + 1)..Len(line) :
             line[q] = Quote /\ \A r \in (open + 1)..(q - 1) : line[r] # Quote
    ELSE 0

\* Positions at or after `from` where key="value" can be matched.
attr_starts(line, from, key) ==
    {j \in from..(Len(line) - 1) :
        line[j] = key /\ line[j + 1] = Quote /\ closing_quote(line, j + 1) # 0}

\* The optional groups (?:.*key="([^"]*)")? taken left to right.  Each is
\* greedy: it takes part whenever it can, its .* as long as it can, so it
\* binds the last occurrence of its key at or after the current position and
\* the next group continues behind the value's closing quote.
RECURSIVE match_attrs(_, _, _, _)
match_attrs(line, pos, k, caps) ==
    IF k > Len(AttrKeys) THEN [caps |-> caps, pos |-> pos]
    ELSE LET S == attr_starts(line, pos, AttrKeys[k]) IN
         IF S = {} THEN match_attrs(line, pos, k + 1, Append(caps, None))
         ELSE LET j == Max(S)
                  q == closing_quote(line, j + 1)
              IN match_attrs(line, q + 1, k + 1,
                             Append(caps, Some(SubSeq(line, j + 2, q - 1))))

\* extinf_regex.captures(line) for a line that starts with #EXTINF: :
\* ([^,]*), needs a comma and stops at the first one; (.*)$ takes what is
\* left behind the last attribute matched.
extinf_captures(line) ==
    LET c == find(line, Comma) IN
    IF c = 0 THEN None
    ELSE LET m == match_attrs(line, c + 1, 1, <<>>) IN
         Some([tvg_name |-> m.caps[1], logo |-> m.caps[2], group |-> m.caps[3],
               language |-> m.caps[4], country |-> m.caps[5], tvg_id |-> m.caps[6],
               rest |-> Some(SubSeq(line, m.pos, Len(line)))])

\* ---------------------------------------------------------------- parsing
\* One iteration of the loop of parse_parallel: `line` is lines[i], `prev`
\* is lines[i - 1], `acc` the channels pushed so far.
parallel_step(line, prev, acc) ==
    IF ~starts_with(line, EXTINF) THEN acc
    ELSE LET captures == extinf_captures(line) IN
         IF captures # None
         THEN LET c == captures[1]
                  name_part == IF c.rest # None THEN trim(c.rest[1]) ELSE UnknownChannel
                  channel_name == IF c.tvg_name # None THEN c.tvg_name[1] ELSE name_part
              IN IF starts_with(prev, HTTP)
                 THEN Append(acc, Channel_with_metadata(channel_name, trim(prev), c.group,
                                     c.logo, c.language, c.country, c.tvg_id))
                 ELSE acc
         ELSE LET comma_pos == find(line, Comma) IN
              IF comma_pos # 0 /\ starts_with(prev, HTTP)
              THEN Append(acc, Channel_new(trim(SubSeq(line, comma_pos + 1, Len(line))),
                                           trim(prev)))
              ELSE acc

\* sequential_step without the test of the preceding line.
sequential_step_any_prev(line, prev, acc) ==
    IF ~starts_with(line, EXTINF) THEN acc
    ELSE LET comma_pos == find(line, Comma) IN
         IF comma_pos # 0
         THEN Append(acc, Channel_new(trim(SubSeq(line, comma_pos + 1, Len(line))),
                                      trim(prev)))
         ELSE acc

\* sequential_step putting the channel in front of those pushed so far.
sequential_step_prepending(line, prev, acc) ==
    IF ~starts_with(line, EXTINF) THEN acc
    ELSE LET comma_pos == find(line, Comma) IN
         IF comma_pos # 0 /\ starts_with(prev, HTTP)
         THEN <<Channel_new(trim(SubSeq(line, comma_pos + 1, Len(line))), trim(prev))>>
                \o acc
         ELSE acc

\* sequential_step storing the preceding line as it stands, blanks included.
sequential_step_untrimmed(line, prev, acc) ==
    IF ~starts_with(line, EXTINF) THEN acc
    ELSE LET comma_pos == find(line, Comma) IN
         IF comma_pos # 0 /\ starts_with(prev, HTTP)
         THEN Append(acc, Channel_new(trim(SubSeq(line, comma_pos + 1, Len(line))), prev))
         ELSE acc

\* One iteration of the loop of parse_sequential.
sequential_step(line, prev, acc) ==
    IF ~starts_with(line, EXTINF) THEN acc
    ELSE LET comma_pos == find(line, Comma) IN
         IF comma_pos # 0 /\ starts_with(prev, HTTP)
         THEN Append(acc, Channel_new(trim(SubSeq(line, comma_pos + 1, Len(line))),
                                      trim(prev)))
         ELSE acc

\* The scans start at index 1 of the code (the second line, lines[2] here).
\* parallel_scan taking the url of the line after the metadata line.
RECURSIVE parallel_scan_following(_, _, _)
parallel_scan_following(lines, i, acc) ==
    IF i > Len(lines) THEN acc
    ELSE parallel_scan_following(lines, i + 1,
            parallel_step(lines[i - 1], lines[i], acc))

RECURSIVE parallel_scan(_, _, _)
parallel_scan(lines, i, acc) ==
    IF i > Len(lines) THEN acc
    ELSE parallel_scan(lines, i + 1, parallel_step(lines[i], lines[i - 1], acc))

RECURSIVE sequential_scan(_, _, _)
sequential_scan(lines, i, acc) ==
    IF i > Len(lines) THEN acc
    ELSE sequential_scan(lines, i + 1, sequential_step(lines[i], lines[i - 1], acc))

parse_parallel(lines) == parallel_scan(lines, 2, <<>>)

parse_sequential(lines) == sequential_scan(lines, 2, <<>>)

\* ---------------------------------------------------------------- indices
\* HashMap::insert
insert(map, k, v) == (k :> v) @@ map

\* entry(k).or_insert_with(Vec::new).push(v)
entry_push(map, k, v) ==
    IF k \in DOMAIN map THEN [map EXCEPT ![k] = Append(@, v)] ELSE (k :> <<v>>) @@ map

\* index_names keeping the first position of a name (entry().or_insert).
RECURSIVE index_names_first_wins(_, _, _)
index_names_first_wins(chs, idx, map) ==
    IF idx >= Len(chs) THEN map
    ELSE index_names_first_wins(chs, idx + 1,
                                IF chs[idx + 1].name \in DOMAIN map THEN map
                                ELSE insert(map, chs[idx + 1].name, idx))

\* First loop of build_indices, from position idx on.
RECURSIVE index_names(_, _, _)
index_names(chs, idx, map) ==
    IF idx >= Len(chs) THEN map
    ELSE index_names(chs, idx + 1, insert(map, chs[idx + 1].name, idx))

\* Second loop of build_indices, from position idx on.
RECURSIVE index_groups(_, _, _)
index_groups(chs, idx, map) ==
    IF idx >= Len(chs) THEN map
    ELSE index_groups(chs, idx + 1,
                      IF chs[idx + 1].group # None
                      THEN entry_push(map, chs[idx + 1].group[1], idx)
                      ELSE map)

\* build_indices works on the maps the parser already holds.
build_indices(self) ==
    [self EXCEPT !.channel_map = index_names(self.channels, 0, self.channel_map),
                 !.groups = index_groups(self.channels, 0, self.groups)]

\* ---------------------------------------------------------------- parser
PlaylistParser_new(parallel) ==
    [channels |-> <<>>, channel_map |-> <<>>, groups |-> <<>>,
     parallel_processing |-> parallel]

Outcomes == {"ok", "read_error", "join_error"}

\* parse_file dropping the previous snapshot before it reads the file.
parse_file_clears_first(self, text, outcome) ==
    LET cleared == PlaylistParser_new(self.parallel_processing) IN
    IF outcome = "read_error" THEN [self |-> cleared, result |-> "Err"]
    ELSE IF self.parallel_processing
         THEN IF outcome = "join_error" THEN [self |-> cleared, result |-> "Err"]
              ELSE [self |-> build_indices([cleared EXCEPT !.channels = parse_parallel(text)]),
                    result |-> "Ok"]
         ELSE [self |-> build_indices([cleared EXCEPT !.channels = parse_sequential(text)]),
               result |-> "Ok"]

\* parse_file: `outcome` is what the environment does to this call:
\* read_to_string fails, the blocking task cannot be joined, or neither.
\* Each `?` returns before anything of self is assigned.
parse_file(self, text, outcome) ==
    IF outcome = "read_error" THEN [self |-> self, result |-> "Err"]
    ELSE IF self.parallel_processing
         THEN IF outcome = "join_error" THEN [self |-> self, result |-> "Err"]
              ELSE [self |-> build_indices([self EXCEPT !.channels = parse_parallel(text)]),
                    result |-> "Ok"]
         ELSE [self |-> build_indices([self EXCEPT !.channels = parse_sequential(text)]),
               result |-> "Ok"]

get_channels(self) == self.channels

get_channel_by_name(self, name) ==
    IF name \in DOMAIN self.channel_map /\ self.channel_map[name] < Len(self.channels)
    THEN Some(self.channels[self.channel_map[name] + 1])
    ELSE None

get_channels_by_group(self, group) ==
    IF group \in DOMAIN self.groups
    THEN LET indices == self.groups[group]
             kept == SelectSeq(indices, LAMBDA idx : idx < Len(self.channels))
         IN [k \in 1..Len(kept) |-> self.channels[kept[k] + 1]]
    ELSE <<>>

\* ---------------------------------------------------------------- search
\* SkimMatcherV2::fuzzy_match is library code: for one query it is some
\* function from a name to no match (None) or a score (Some).  `score` is
\* that function on the names of the current channels.
Scorings(self) ==
    [{self.channels[i].name : i \in 1..Len(self.channels)} ->
        {None} \cup {Some(v) : v \in 0..MaxScore}]

\* collect_matches keeping only scores above zero (a threshold on the score).
RECURSIVE collect_matches_positive(_, _, _)
collect_matches_positive(chs, score, acc) ==
    IF chs = <<>> THEN acc
    ELSE collect_matches_positive(Tail(chs), score,
                                  IF score[Head(chs).name] # None /\ score[Head(chs).name][1] > 0
                                  THEN Append(acc, <<score[Head(chs).name][1], Head(chs)>>)
                                  ELSE acc)

\* filter_map + collect: the <<score, channel>> pairs of the channels the
\* matcher reports as matching, in sequence order.
RECURSIVE collect_matches(_, _, _)
collect_matches(chs, score, acc) ==
    IF chs = <<>> THEN acc
    ELSE collect_matches(Tail(chs), score,
                         IF score[Head(chs).name] # None
                         THEN Append(acc, <<score[Head(chs).name][1], Head(chs)>>)
                         ELSE acc)

\* insert_sorted for an ascending sort (a.0.cmp(&b.0)).
insert_sorted_ascending(sorted, x) ==
    LET n == Cardinality({i \in 1..Len(sorted) : sorted[i][1] <= x[1]}) IN
    SubSeq(sorted, 1, n) \o <<x>> \o SubSeq(sorted, n + 1, Len(sorted))

\* insert_sorted putting x in front of the pairs of its own score (a sort that
\* is not stable).
insert_sorted_before_equals(sorted, x) ==
    LET n == Cardinality({i \in 1..Len(sorted) : sorted[i][1] > x[1]}) IN
    SubSeq(sorted, 1, n) \o <<x>> \o SubSeq(sorted, n + 1, Len(sorted))

\* Where a stable descending sort puts x among the already sorted pairs:
\* behind every pair whose score is at least its own.
insert_sorted(sorted, x) ==
    LET n == Cardinality({i \in 1..Len(sorted) : sorted[i][1] >= x[1]}) IN
    SubSeq(sorted, 1, n) \o <<x>> \o SubSeq(sorted, n + 1, Len(sorted))

\* matches.sort_by(|a, b| b.0.cmp(&a.0)): slice::sort_by is stable.
RECURSIVE sort_by_score(_, _)
sort_by_score(matches, sorted) ==
    IF matches = <<>> THEN sorted
    ELSE sort_by_score(Tail(matches), insert_sorted(sorted, Head(matches)))

search_channels(self, score) ==
    LET matches == sort_by_score(collect_matches(self.channels, score, <<>>), <<>>)
    IN [k \in 1..Len(matches) |-> matches[k][2]]

\* ---------------------------------------------------------------- statistics
\* *map.entry(k).or_insert(0) += 1
entry_count(map, k) ==
    IF k \in DOMAIN map THEN [map EXCEPT ![k] = @ + 1] ELSE (k :> 1) @@ map

\* The loop of get_statistics over the channels.
RECURSIVE count_channels(_, _)
count_channels(chs, stats) ==
    IF chs = <<>> THEN stats
    ELSE LET c == Head(chs)
             with_country == IF c.country # None
                             THEN [stats EXCEPT !.countries = entry_count(@, c.country[1])]
                             ELSE stats
             with_language == IF c.language # None
                              THEN [with_country EXCEPT
                                       !.languages = entry_count(@, c.language[1])]
                              ELSE with_country
         IN count_channels(Tail(chs), with_language)

get_statistics(self) ==
    count_channels(self.channels,
        [total_channels |-> Len(self.channels),
         total_groups |-> Cardinality(DOMAIN self.groups),
         channels_per_group |-> [g \in DOMAIN self.groups |-> Len(self.groups[g])],
         countries |-> <<>>,
         languages |-> <<>>])

\* ---------------------------------------------------------------- utils
\* A Duration is whole seconds and the nanoseconds of the second under way.
Durations == [secs : 0..MaxSeconds, nanos : {0, 999999999}]

as_secs(duration) == duration.secs

\* format!("{}", n) of an unsigned integer: its decimal digits, no padding.
DigitChars == <<"0", "1", "2", "3", "4", "5", "6", "7", "8", "9">>

RECURSIVE to_string(_)
to_string(n) ==
    IF n < 10 THEN <<DigitChars[n + 1]>>
    ELSE to_string(n \div 10) \o <<DigitChars[(n % 10) + 1]>>

\* format_duration with the minutes taken of the whole duration.
format_duration_total_minutes(duration) ==
    LET total_seconds == as_secs(duration)
        hours == total_seconds \div 3600
        minutes == total_seconds \div 60
        seconds == total_seconds % 60
    IN  IF hours > 0
        THEN to_string(hours) \o <<"h", " ">> \o to_string(minutes) \o <<"m", " ">>
                \o to_string(seconds) \o <<"s">>
        ELSE IF minutes > 0
        THEN to_string(minutes) \o <<"m", " ">> \o to_string(seconds) \o <<"s">>
        ELSE to_string(seconds) \o <<"s">>

format_duration(duration) ==
    LET total_seconds == as_secs(duration)
        hours == total_seconds \div 3600
        minutes == (total_seconds % 3600) \div 60
        seconds == total_seconds % 60
    IN  IF hours > 0
        THEN to_string(hours) \o <<"h", " ">> \o to_string(minutes) \o <<"m", " ">>
                \o to_string(seconds) \o <<"s">>
        ELSE IF minutes > 0
        THEN to_string(minutes) \o <<"m", " ">> \o to_string(seconds) \o <<"s">>
        ELSE to_string(seconds) \o <<"s">>

\* A name is a sequence of characters.  The characters the match arm lists,
\* control characters (char::is_control), and characters that are neither.
ListedChars == {"/", "\\", ":", "*", "?", "\"", "<", ">", "|"}
ControlChars == {"\t", "\n", "\r"}
PlainChars == {"_", "a", " "}
Chars == ListedChars \cup ControlChars \cup PlainChars

is_control(c) == c \in ControlChars

\* sanitize_filename without the is_control arm.
sanitize_filename_listed_only(name) ==
    [i \in 1..Len(name) |->
        IF name[i] \in ListedChars THEN "_"
        ELSE name[i]]

sanitize_filename(name) ==
    [i \in 1..Len(name) |->
        IF name[i] \in ListedChars THEN "_"
        ELSE IF is_control(name[i]) THEN "_"
        ELSE name[i]]

FileNames == UNION {[1..n -> Chars] : n \in 0..MaxNameLen}

\* A str is UTF-8: str::len counts bytes and a slice must end between two
\* characters.  One character of one byte and one of two.
WideChar == "U+00E9"
StrChars == {"a", WideChar}
len_utf8(c) == IF c = WideChar THEN 2 ELSE 1

RECURSIVE str_len(_)
str_len(s) == IF s = <<>> THEN 0 ELSE len_utf8(Head(s)) + str_len(Tail(s))

is_char_boundary(s, n) == \E k \in 0..Len(s) : str_len(SubSeq(s, 1, k)) = n

\* &s[..n] where n is a character boundary.
slice_to(s, n) == SubSeq(s, 1, CHOOSE k \in 0..Len(s) : str_len(SubSeq(s, 1, k)) = n)

saturating_sub(a, b) == IF a >= b THEN a - b ELSE 0

Returned(value) == [panicked |-> FALSE, value |-> value]
Panicked == [panicked |-> TRUE, value |-> <<>>]

truncate_string(s, max_len) ==
    IF str_len(s) <= max_len THEN Returned(s)
    ELSE LET n == saturating_sub(max_len, 3) IN
         IF is_char_boundary(s, n)
         THEN Returned(slice_to(s, n) \o <<".", ".", ".">>)
         ELSE Panicked

Strs == UNION {[1..n -> StrChars] : n \in 0..MaxStrLen}

\* ---------------------------------------------------------------- recent lists
\* Vec::retain(|name| name != channel_name), Vec::insert(0, ..), Vec::truncate.
retain_other(list, channel_name) == SelectSeq(list, LAMBDA name : name # channel_name)

insert_front(list, channel_name) == <<channel_name>> \o list

truncate(list, len) == IF Len(list) > len THEN SubSeq(list, 1, len) ELSE list

\* add_recent_channel without the retain: the name is added once more.
add_recent_channel_keeping(list, channel_name) ==
    LET inserted == insert_front(list, channel_name) IN
    IF Len(inserted) > RecentLimit THEN truncate(inserted, RecentLimit) ELSE inserted

add_recent_channel(list, channel_name) ==
    LET inserted == insert_front(retain_other(list, channel_name), channel_name) IN
    IF Len(inserted) > RecentLimit THEN truncate(inserted, RecentLimit) ELSE inserted

add_to_history(list, channel_name) ==
    LET inserted == insert_front(retain_other(list, channel_name), channel_name) IN
    IF Len(inserted) > HistoryLimit THEN truncate(inserted, HistoryLimit) ELSE inserted

\* ---------------------------------------------------------------- state machine
Self ==
    [channels |-> channels, channel_map |-> channel_map, groups |-> groups,
     parallel_processing |-> parallel_processing]

\* Before the interactive loop is entered: no player process, empty lists,
\* no shutdown requested.
AppInit ==
    /\ current_player_process = <<>>
    /\ history = <<>>
    /\ recent_channels = <<>>
    /\ running = TRUE
    /\ pc = "main"
    /\ spawned = 0
    /\ retry = [state |-> "idle"]

Init ==
    /\ AppInit
    /\ parallel_processing \in BOOLEAN
    /\ channels = PlaylistParser_new(parallel_processing).channels
    /\ channel_map = PlaylistParser_new(parallel_processing).channel_map
    /\ groups = PlaylistParser_new(parallel_processing).groups
    /\ result = "none"
    /\ loads = 0
    /\ content = <<>>
    /\ call = [op |-> "new"]
    /\ answer = <<>>

\* One call of parse_file on a file whose text is `text`.
Load(text, outcome) ==
    /\ loads < MaxLoads
    /\ outcome = "join_error" => parallel_processing
    /\ LET r == parse_file(Self, text, outcome) IN
        /\ channels' = r.self.channels
        /\ channel_map' = r.self.channel_map
        /\ groups' = r.self.groups
        /\ result' = r.result
    /\ loads' = loads + 1
    /\ call' = [op |-> "parse_file"]
    /\ answer' = <<>>
    /\ UNCHANGED <<parallel_processing, app_state, retry>>

\* What a text loads as under each strategy, and one text for each such
\* outcome.  A load uses its text through the parse alone and the parser keeps
\* no text, so the loads of these texts reach what the loads of all texts reach.
ParseOutcome(text) == <<parse_sequential(text), parse_parallel(text)>>

LoadTexts ==
    {CHOOSE text \in Playlists : ParseOutcome(text) = o :
        o \in {ParseOutcome(text) : text \in Playlists}}

ParseFile == \E text \in LoadTexts : Load(text, "ok") /\ UNCHANGED content

ParseFileReadError == Load(<<>>, "read_error") /\ UNCHANGED content

ParseFileJoinError == \E text \in LoadTexts : Load(text, "join_error") /\ UNCHANGED content

\* The queries take &self: they return a value and assign nothing.
parser_state == <<channels, channel_map, groups, parallel_processing, result, loads, content>>

\* Names and groups to look up: those the indices hold, those of the current
\* channels, and one that is in neither.
UnknownName == <<"Nobody">>
UnknownGroup == <<"Nowhere">>

LookupNames ==
    DOMAIN channel_map \cup {channels[i].name : i \in 1..Len(channels)} \cup {UnknownName}

LookupGroups ==
    DOMAIN groups
        \cup {channels[i].group[1] : i \in {j \in 1..Len(channels) : channels[j].group # None}}
        \cup {UnknownGroup}

\* SearchChannels sorting the parser's own channel vector.
SearchChannelsReordering ==
    \E score \in Scorings(Self) :
        /\ call' = [op |-> "search_channels", score |-> score]
        /\ answer' = search_channels(Self, score)
        /\ channels' = search_channels(Self, score)
        /\ UNCHANGED <<channel_map, groups, parallel_processing, result, loads, content, app_state, retry>>

SearchChannels ==
    \E score \in Scorings(Self) :
        /\ call' = [op |-> "search_channels", score |-> score]
        /\ answer' = search_channels(Self, score)
        /\ UNCHANGED <<parser_state, retry, app_state>>

GetChannelByName ==
    \E name \in LookupNames :
        /\ call' = [op |-> "get_channel_by_name", name |-> name]
        /\ answer' = get_channel_by_name(Self, name)
        /\ UNCHANGED <<parser_state, retry, app_state>>

GetChannelsByGroup ==
    \E group \in LookupGroups :
        /\ call' = [op |-> "get_channels_by_group", group |-> group]
        /\ answer' = get_channels_by_group(Self, group)
        /\ UNCHANGED <<parser_state, retry, app_state>>

GetChannels ==
    /\ call' = [op |-> "get_channels"]
    /\ answer' = get_channels(Self)
    /\ UNCHANGED <<parser_state, retry, app_state>>

\* GetStatistics taking the group index out of the parser (mem::take).
GetStatisticsDraining ==
    /\ call' = [op |-> "get_statistics"]
    /\ answer' = get_statistics(Self)
    /\ groups' = <<>>
    /\ UNCHANGED <<channels, channel_map, parallel_processing, result, loads, content, app_state, retry>>

GetStatistics ==
    /\ call' = [op |-> "get_statistics"]
    /\ answer' = get_statistics(Self)
    /\ UNCHANGED <<parser_state, retry, app_state>>

Next ==
    \/ ParseFile \/ ParseFileReadError \/ ParseFileJoinError
    \/ SearchChannels \/ GetChannelByName \/ GetChannelsByGroup \/ GetChannels
    \/ GetStatistics

Spec == Init /\ [][Next]_vars

\* The first load of a fresh parser, with the text it read kept in `content`.
FirstParse == \E text \in Playlists : loads = 0 /\ Load(text, "ok") /\ content' = text

NextParse == FirstParse

SpecParse == Init /\ [][NextParse]_vars

\* The functions of utils are pure: a behaviour starts with one call of one of
\* them on one argument, not yet returned, and the call's step returns its String.
UtilsCalls ==
    {[op |-> "format_duration", duration |-> duration, returned |-> FALSE] :
        duration \in Durations}
    \cup {[op |-> "sanitize_filename", name |-> name, returned |-> FALSE] :
        name \in FileNames}
    \cup {[op |-> "truncate_string", s |-> s, max_len |-> max_len, returned |-> FALSE] :
        s \in Strs, max_len \in 0..(MaxStrLen + 1)}

InitUtils ==
    /\ AppInit
    /\ parallel_processing = TRUE
    /\ channels = PlaylistParser_new(parallel_processing).channels
    /\ channel_map = PlaylistParser_new(parallel_processing).channel_map
    /\ groups = PlaylistParser_new(parallel_processing).groups
    /\ result = "none"
    /\ loads = 0
    /\ content = <<>>
    /\ call \in UtilsCalls
    /\ answer = <<>>

FormatDuration ==
    /\ call.op = "format_duration"
    /\ ~call.returned
    /\ call' = [call EXCEPT !.returned = TRUE]
    /\ answer' = format_duration(call.duration)
    /\ UNCHANGED <<parser_state, retry, app_state>>

SanitizeFilename ==
    /\ call.op = "sanitize_filename"
    /\ ~call.returned
    /\ call' = [call EXCEPT !.returned = TRUE]
    /\ answer' = sanitize_filename(call.name)
    /\ UNCHANGED <<parser_state, retry, app_state>>

TruncateString ==
    /\ call.op = "truncate_string"
    /\ ~call.returned
    /\ call' = [call EXCEPT !.returned = TRUE]
    /\ answer' = truncate_string(call.s, call.max_len)
    /\ UNCHANGED <<parser_state, retry, app_state>>

NextUtils == FormatDuration \/ SanitizeFilename \/ TruncateString

SpecUtils == InitUtils /\ [][NextUtils]_vars

\* ---------------------------------------------------------------- player
\* run_interactive_with_shutdown on a player whose playlist has been loaded.
\* pc says where it stands: "main" before the call, "loop" at the top of the
\* loop, "select" in select_channel, "validate", "spawn" and "wait" inside
\* play_channel, "played" when play_channel has returned, "cleanup" behind
\* the loop, "returned" when the call has returned.  A child process is named
\* by its number in the order of spawning.
PlayerTexts == {<<>>, TwoUrls}

InitPlayer ==
    /\ AppInit
    /\ parallel_processing \in BOOLEAN
    /\ \E text \in PlayerTexts :
        LET r == parse_file(PlaylistParser_new(parallel_processing), text, "ok") IN
        /\ channels = r.self.channels
        /\ channel_map = r.self.channel_map
        /\ groups = r.self.groups
        /\ result = r.result
    /\ loads = 1
    /\ content = <<>>
    /\ call = [op |-> "load_playlist"]
    /\ answer = <<>>

\* The signal task stores false in the flag, whenever the signal comes.
Signal ==
    /\ running
    /\ pc # "returned"
    /\ running' = FALSE
    /\ UNCHANGED <<parser_state, retry, call, answer, current_player_process, history,
                   recent_channels, pc, spawned>>

Enter ==
    /\ pc = "main"
    /\ call' = [op |-> "run_interactive_with_shutdown"]
    /\ IF get_channels(Self) = <<>>
       THEN pc' = "returned" /\ answer' = "Ok"
       ELSE pc' = "loop" /\ answer' = <<>>
    /\ UNCHANGED <<parser_state, retry, current_player_process, history, recent_channels,
                   running, spawned>>

LoopTop ==
    /\ pc = "loop"
    /\ pc' = IF ~running THEN "cleanup" ELSE "select"
    /\ UNCHANGED <<parser_state, retry, call, answer, current_player_process, history,
                   recent_channels, running, spawned>>

\* select_channel returns a channel of the playlist, None (the user quits)
\* or an error, which `?` returns from the loop at once.
SelectChannel ==
    /\ pc = "select"
    /\ \/ \E i \in 1..Len(channels) :
            /\ history' = add_to_history(history, channels[i].name)
            /\ pc' = "validate"
            /\ answer' = answer
       \/ pc' = "cleanup" /\ UNCHANGED <<history, answer>>
       \/ pc' = "returned" /\ answer' = "Err" /\ UNCHANGED history
    /\ UNCHANGED <<parser_state, retry, call, current_player_process, recent_channels,
                   running, spawned>>

\* play_channel: validate_player()? ...
ValidatePlayer ==
    /\ pc = "validate"
    /\ \E found \in BOOLEAN : pc' = IF found THEN "spawn" ELSE "played"
    /\ UNCHANGED <<parser_state, retry, call, answer, current_player_process, history,
                   recent_channels, running, spawned>>

\* ... cmd.spawn()?, self.current_player_process = Some(child) ...
Spawn ==
    /\ pc = "spawn"
    /\ \/ /\ spawned < MaxSpawns
          /\ spawned' = spawned + 1
          /\ current_player_process' = Some(spawned + 1)
          /\ pc' = "wait"
       \/ /\ pc' = "played"
          /\ UNCHANGED <<spawned, current_player_process>>
    /\ UNCHANGED <<parser_state, retry, call, answer, history, recent_channels, running>>

\* ... process.wait()?, self.current_player_process = None, Ok(()).
Wait ==
    /\ pc = "wait"
    /\ \E waited \in BOOLEAN :
        current_player_process' = IF waited THEN None ELSE current_player_process
    /\ pc' = "played"
    /\ UNCHANGED <<parser_state, retry, call, answer, history, recent_channels, running, spawned>>

\* Back in the loop: the error, if any, is reported and the loop goes on.
Played ==
    /\ pc = "played"
    /\ pc' = "loop"
    /\ UNCHANGED <<parser_state, retry, call, answer, current_player_process, history,
                   recent_channels, running, spawned>>

\* cleanup: take() the child, kill it and wait for it; then Ok(()).
Cleanup ==
    /\ pc = "cleanup"
    /\ current_player_process' = None
    /\ pc' = "returned"
    /\ answer' = "Ok"
    /\ UNCHANGED <<parser_state, retry, call, history, recent_channels, running, spawned>>

NextPlayer ==
    \/ Signal \/ Enter \/ LoopTop \/ SelectChannel
    \/ ValidatePlayer \/ Spawn \/ Wait \/ Played \/ Cleanup

SpecPlayer == InitPlayer /\ [][NextPlayer]_vars

\* ---------------------------------------------------------------- recent channels
\* Calls of Config::add_recent_channel and of IptvPlayer::add_to_history.
\* Both compare names for equality only, so a name new to the list is taken
\* to be the next number; the names given again are 1..MaxRepeated.  The two
\* lists belong to different objects and no call touches both: a behaviour
\* fills one of them.
InitRecent ==
    /\ AppInit
    /\ parallel_processing = TRUE
    /\ channels = PlaylistParser_new(parallel_processing).channels
    /\ channel_map = PlaylistParser_new(parallel_processing).channel_map
    /\ groups = PlaylistParser_new(parallel_processing).groups
    /\ result = "none"
    /\ loads = 0
    /\ content = <<>>
    /\ call = [op |-> "new"]
    /\ answer = <<>>

ChannelNames(list) ==
    LET newest == Max({list[i] : i \in 1..Len(list)} \cup {MaxRepeated}) IN
    (1..MaxRepeated) \cup (IF newest < MaxNames THEN {newest + 1} ELSE {})

AddRecentChannel ==
    /\ history = <<>>
    /\ \E channel_name \in ChannelNames(recent_channels) :
        /\ call' = [op |-> "add_recent_channel", channel_name |-> channel_name]
        /\ recent_channels' = add_recent_channel(recent_channels, channel_name)
    /\ UNCHANGED <<parser_state, retry, answer, current_player_process, history, running, pc,
                   spawned>>

AddToHistory ==
    /\ recent_channels = <<>>
    /\ \E channel_name \in ChannelNames(history) :
        /\ call' = [op |-> "add_to_history", channel_name |-> channel_name]
        /\ history' = add_to_history(history, channel_name)
    /\ UNCHANGED <<parser_state, retry, answer, current_player_process, recent_channels, running,
                   pc, spawned>>

NextRecent == AddRecentChannel \/ AddToHistory

SpecRecent == InitRecent /\ [][NextRecent]_vars

\* ---------------------------------------------------------------- retry_async
\* One call of retry_async(operation, max_attempts, delay).  The operation is
\* the caller's: each invocation returns Ok with some value or Err with some
\* error.  `results` logs what the invocations returned and `sleeps` counts
\* the waits; `attempt` and `last_error` are the function's own.
Values == {"v"}
Errors == {"e1", "e2"}
Ok(value) == [ok |-> TRUE, value |-> value]
Err(error) == [ok |-> FALSE, error |-> error]
OperationResults == {Ok(value) : value \in Values} \cup {Err(error) : error \in Errors}

InitRetry ==
    /\ current_player_process = <<>>
    /\ history = <<>>
    /\ recent_channels = <<>>
    /\ running = TRUE
    /\ pc = "main"
    /\ spawned = 0
    /\ parallel_processing = TRUE
    /\ channels = PlaylistParser_new(parallel_processing).channels
    /\ channel_map = PlaylistParser_new(parallel_processing).channel_map
    /\ groups = PlaylistParser_new(parallel_processing).groups
    /\ result = "none"
    /\ loads = 0
    /\ content = <<>>
    /\ \E max_attempts \in 0..MaxAttempts :
        /\ call = [op |-> "retry_async", max_attempts |-> max_attempts]
        /\ retry = [state |-> "loop", max_attempts |-> max_attempts, attempt |-> 1,
                    last_error |-> None, results |-> <<>>, sleeps |-> 0]
    /\ answer = <<>>

\* The body of the loop up to the sleep: operation().await and the match.
Attempt ==
    /\ retry.state = "loop"
    /\ retry.attempt <= retry.max_attempts
    /\ \E r \in OperationResults :
        IF r.ok
        THEN /\ retry' = [retry EXCEPT !.results = Append(@, r), !.state = "returned"]
             /\ answer' = Ok(r.value)
        ELSE /\ retry' = [retry EXCEPT
                    !.results = Append(@, r),
                    !.last_error = Some(r.error),
                    !.state = IF retry.attempt < retry.max_attempts THEN "sleep" ELSE "loop",
                    !.attempt = IF retry.attempt < retry.max_attempts THEN @ ELSE @ + 1]
             /\ answer' = answer
    /\ UNCHANGED <<parser_state, call, app_state>>

\* tokio::time::sleep(delay).await, then the next attempt.
Sleep ==
    /\ retry.state = "sleep"
    /\ retry' = [retry EXCEPT !.sleeps = @ + 1, !.attempt = @ + 1, !.state = "loop"]
    /\ UNCHANGED <<parser_state, call, answer, app_state>>

\* Behind the loop: Err(last_error.unwrap()), which panics on None.
Exhausted ==
    /\ retry.state = "loop"
    /\ retry.attempt > retry.max_attempts
    /\ IF retry.last_error = None
       THEN retry' = [retry EXCEPT !.state = "panicked"] /\ answer' = answer
       ELSE retry' = [retry EXCEPT !.state = "returned"] /\ answer' = Err(retry.last_error[1])
    /\ UNCHANGED <<parser_state, call, app_state>>

NextRetry == Attempt \/ Sleep \/ Exhausted

SpecRetry == InitRetry /\ [][NextRetry]_vars

\* ---------------------------------------------------------------- properties
Positions == 1..Len(channels)

Names == {channels[i].name : i \in Positions}

GroupNames == {channels[i].group[1] : i \in {j \in Positions : channels[j].group # None}}

\* The 0-based positions of the current channels whose group is g.
GroupPositions(g) == {i - 1 : i \in {j \in Positions : channels[j].group = Some(g)}}

Range(f) == {f[x] : x \in DOMAIN f}

Increasing(seq) == \A a, b \in 1..Len(seq) : a < b => seq[a] < seq[b]

\* Lines of the text read that start with #EXTINF: and have a line starting
\* with http next to them, before or after.
PairableLines ==
    {i \in 1..Len(content) :
        /\ starts_with(content[i], EXTINF)
        /\ \/ i > 1 /\ starts_with(content[i - 1], HTTP)
           \/ i < Len(content) /\ starts_with(content[i + 1], HTTP)}

\* C1: for every playlist text the sequential and the parallel strategy yield
\* the same ordered channel sequence, field by field; so whichever strategy
\* the parser is configured with, the sequence it loaded is the one both give.
C1_StrategiesAgree ==
    result = "Ok" =>
        /\ channels = parse_sequential(content)
        /\ channels = parse_parallel(content)

\* C2: loading the playlist `#EXTINF:-1 tvg-name="Foo" group-title="News",Foo HD`
\* followed by `http://x/y` produces exactly one channel, named "Foo", with
\* url "http://x/y" and group "News".
C2_PairingExample ==
    (result = "Ok" /\ content = PairingExample) =>
        /\ Len(channels) = 1
        /\ channels[1].name = <<"Foo">>
        /\ channels[1].url = <<HTTP, "://x/y">>
        /\ channels[1].group = Some(<<"News">>)

\* C3: loading the playlist `#EXTINF:-1,Simple Channel` followed by `http://a/b`
\* produces one channel named "Simple Channel" with no metadata field set.
C3_FallbackExample ==
    (result = "Ok" /\ content = FallbackExample) =>
        /\ Len(channels) = 1
        /\ channels[1] = Channel_new(<<"Simple", Space, "Channel">>, <<HTTP, "://a/b">>)

\* C4: after any sequence of loads the two indices describe only the current
\* channel sequence: every key of channel_map is the name of a current channel
\* at the position stored, every key of groups is the group of a current
\* channel, and every position stored under a group is one of the current
\* positions of that group, stored once.
C4_IndicesDescribeCurrent ==
    /\ \A n \in DOMAIN channel_map :
          channel_map[n] < Len(channels) /\ channels[channel_map[n] + 1].name = n
    /\ \A g \in DOMAIN groups :
          /\ g \in GroupNames
          /\ Range(groups[g]) \subseteq GroupPositions(g)
          /\ Len(groups[g]) = Cardinality(GroupPositions(g))

\* C5: a parse_file call that fails (the file cannot be read, or the parse
\* cannot be completed) returns an error and leaves the channel sequence and
\* both indices exactly as they were before the call.
C5_FailedLoadKeepsSnapshot ==
    [][ /\ (ParseFileReadError \/ ParseFileJoinError) => result' = "Err"
        /\ (loads' # loads /\ result' = "Err") =>
              /\ channels' = channels
              /\ channel_map' = channel_map
              /\ groups' = groups ]_vars

C5_Witness ==
    /\ result = "Err"
    /\ loads = 2
    /\ Len(channels) > 0
    /\ DOMAIN channel_map # {}
    /\ DOMAIN groups # {}

C7_GroupIndexExact ==
    /\ \A g \in GroupNames :
          /\ g \in DOMAIN groups
          /\ Range(groups[g]) = GroupPositions(g)
          /\ Len(groups[g]) = Cardinality(GroupPositions(g))
          /\ Increasing(groups[g])
          /\ Len(get_channels_by_group(Self, g)) = Cardinality(GroupPositions(g))
    /\ \A g \in DOMAIN groups \ GroupNames : groups[g] = <<>>

\* C8: after a load, every name that occurs in the current sequence resolves
\* in channel_map to the largest position holding that name, and the earlier
\* channels of that name are still in the sequence get_channels returns.
C8_LastWriterWins ==
    \A i \in Positions :
        LET n == channels[i].name IN
        /\ n \in DOMAIN channel_map
        /\ channel_map[n] = Max({j - 1 : j \in {k \in Positions : channels[k].name = n}})
        /\ get_channel_by_name(Self, n) = Some(channels[channel_map[n] + 1])
        /\ get_channels(Self)[i].name = n

C8_Witness ==
    /\ result = "Ok"
    /\ \E i, j \in Positions :
          /\ i < j
          /\ channels[i].name = channels[j].name
          /\ channels[i] # channels[j]
          /\ channel_map[channels[i].name] = j - 1

\* C9: building the indices a second time over the unchanged channel sequence
\* leaves channel_map and groups as they are.
C9_RebuildIdempotent ==
    /\ build_indices(Self).channel_map = channel_map
    /\ build_indices(Self).groups = groups

\* C10: whenever a query can run, the channel sequence and both indices come
\* from one completed load: the indices are those of that load's sequence and
\* of nothing else.  (A load is one step of the parser, which it holds
\* exclusively, so no second parse and no query runs inside it.)
C10_OneSnapshot ==
    /\ channel_map = index_names(channels, 0, <<>>)
    /\ groups = index_groups(channels, 0, <<>>)

\* How often x occurs in seq.
Occurrences(seq, x) == Cardinality({i \in 1..Len(seq) : seq[i] = x})

\* C11: search_channels returns exactly the channels of the current sequence
\* whose name the matcher reports as matching, each as often as it occurs
\* in the sequence, and the empty sequence when no name matches.
C11_SearchReturnsMatches ==
    call.op = "search_channels" =>
        /\ \A k \in 1..Len(answer) : call.score[answer[k].name] # None
        /\ \A i \in Positions :
              Occurrences(answer, channels[i]) =
                  IF call.score[channels[i].name] # None
                  THEN Occurrences(channels, channels[i]) ELSE 0
        /\ (\A i \in Positions : call.score[channels[i].name] = None) => answer = <<>>

C11_Witness ==
    /\ call.op = "search_channels"
    /\ Len(channels) = 3
    /\ Len(answer) = 2
    /\ \E i \in Positions : call.score[channels[i].name] = None
    /\ \E i \in Positions : call.score[channels[i].name] = Some(0)

\* C12: search_channels ranks its result best first: of two channels in the
\* result the one listed earlier has a score at least that of the later one.
C12_SearchRankedBestFirst ==
    call.op = "search_channels" =>
        \A a, b \in 1..Len(answer) :
            a < b => call.score[answer[a].name][1] >= call.score[answer[b].name][1]

C12_Witness ==
    /\ call.op = "search_channels"
    /\ Len(answer) = 3
    /\ answer[1] = channels[3]
    /\ answer[3] = channels[1]
    /\ call.score[answer[1].name][1] > call.score[answer[3].name][1]

\* How many of the current channels have v in the optional field read by `field`.
CountWith(field(_), v) == Cardinality({i \in Positions : field(channels[i]) = Some(v)})

CountryOf(c) == c.country

LanguageOf(c) == c.language

ValuesOf(field(_)) == {field(channels[i])[1] : i \in {j \in Positions : field(channels[j]) # None}}

\* C13: after any sequence of loads get_statistics returns the length of the
\* current sequence, the number of distinct groups among the current channels,
\* for each of those groups the number of current channels in it, and for each
\* country and language the number of current channels carrying it.
C13_StatisticsOfCurrent ==
    call.op = "get_statistics" =>
        /\ answer.total_channels = Len(channels)
        /\ answer.total_groups = Cardinality(GroupNames)
        /\ DOMAIN answer.channels_per_group = GroupNames
        /\ \A g \in GroupNames :
              answer.channels_per_group[g] = Cardinality(GroupPositions(g))
        /\ DOMAIN answer.countries = ValuesOf(CountryOf)
        /\ \A c \in ValuesOf(CountryOf) : answer.countries[c] = CountWith(CountryOf, c)
        /\ DOMAIN answer.languages = ValuesOf(LanguageOf)
        /\ \A l \in ValuesOf(LanguageOf) : answer.languages[l] = CountWith(LanguageOf, l)

ChannelsOfGroup(g) == SelectSeq(channels, LAMBDA c : c.group = Some(g))

\* C15: lookups never fail: a name the index does not hold gives None, a
\* group the index does not hold gives the empty sequence, and a group it
\* holds gives that group's channels in sequence order.
C15_LookupsTotal ==
    /\ call.op = "get_channel_by_name" =>
          (call.name \notin DOMAIN channel_map => answer = None)
    /\ call.op = "get_channels_by_group" =>
          /\ call.group \notin DOMAIN groups => answer = <<>>
          /\ call.group \in DOMAIN groups => answer = ChannelsOfGroup(call.group)

\* A step of one of the five queries.
QueryStep ==
    SearchChannels \/ GetChannelByName \/ GetChannelsByGroup \/ GetChannels \/ GetStatistics

\* C16: the queries are read-only: none of them changes the channel
\* sequence, a field of a channel, the name index or the group index.
C16_QueriesReadOnly ==
    [][ QueryStep =>
            /\ channels' = channels
            /\ channel_map' = channel_map
            /\ groups' = groups ]_vars

C16_Witness ==
    /\ call.op = "search_channels"
    /\ Len(answer) = 3
    /\ answer # channels
    /\ DOMAIN groups # {}

\* The number a text shows before a unit letter, read back digit by digit;
\* 0 when the text has no such unit.
IsDigit(c) == \E d \in 1..10 : DigitChars[d] = c

DigitValue(c) == (CHOOSE d \in 1..10 : DigitChars[d] = c) - 1

RECURSIVE ReadBack(_, _)
ReadBack(text, i) ==
    IF i = 0 \/ ~IsDigit(text[i]) THEN 0
    ELSE 10 * ReadBack(text, i - 1) + DigitValue(text[i])

Shows(text, unit) == \E i \in 1..Len(text) : text[i] = unit

Field(text, unit) ==
    IF Shows(text, unit)
    THEN ReadBack(text, (CHOOSE i \in 1..Len(text) : text[i] = unit) - 1)
    ELSE 0

\* C17: format_duration of t whole seconds renders h = t div 3600,
\* m = (t mod 3600) div 60 and s = t mod 60 as "{h}h {m}m {s}s" when h > 0, as
\* "{m}m {s}s" when h = 0 and m > 0 and as "{s}s" otherwise; the numbers shown
\* satisfy m < 60, s < 60 and 3600h + 60m + s = t; 30 gives "30s", 90 gives
\* "1m 30s" and 3661 gives "1h 1m 1s".
C17_FormatDuration ==
    (call.op = "format_duration" /\ call.returned) =>
        LET t == call.duration.secs
            h == t \div 3600
            m == (t % 3600) \div 60
            s == t % 60
            H == to_string(h) \o <<"h">>
            M == to_string(m) \o <<"m">>
            S == to_string(s) \o <<"s">>
        IN  /\ h > 0 => answer = H \o <<" ">> \o M \o <<" ">> \o S
            /\ h = 0 /\ m > 0 => answer = M \o <<" ">> \o S
            /\ h = 0 /\ m = 0 => answer = S
            /\ Field(answer, "m") < 60
            /\ Field(answer, "s") < 60
            /\ 3600 * Field(answer, "h") + 60 * Field(answer, "m") + Field(answer, "s") = t
            /\ t = 30 => answer = <<"3", "0", "s">>
            /\ t = 90 => answer = <<"1", "m", " ", "3", "0", "s">>
            /\ t = 3661 => answer = <<"1", "h", " ", "1", "m", " ", "1", "s">>

\* A duration of an hour and more with minutes and seconds to show has been formatted.
C17_Witness ==
    /\ call.op = "format_duration"
    /\ call.returned
    /\ call.duration.secs = 3661
    /\ answer = <<"1", "h", " ", "1", "m", " ", "1", "s">>

\* C18: sanitize_filename maps each of / \ : * ? " < > | and every control
\* character to '_' and leaves every other character unchanged: the output has
\* as many characters as the input, holds none of the forbidden characters, and
\* sanitizing it again changes nothing.
C18_SanitizeFilename ==
    (call.op = "sanitize_filename" /\ call.returned) =>
        LET name == call.name
            Forbidden(c) == c \in {"/", "\\", ":", "*", "?", "\"", "<", ">", "|"} \/ is_control(c)
        IN  /\ Len(answer) = Len(name)
            /\ \A i \in 1..Len(name) :
                answer[i] = IF Forbidden(name[i]) THEN "_" ELSE name[i]
            /\ \A i \in 1..Len(answer) : ~Forbidden(answer[i])
            /\ sanitize_filename(answer) = answer

\* A name with a listed character, a control character and a plain one has
\* been sanitized.
C18_Witness ==
    /\ call.op = "sanitize_filename"
    /\ call.returned
    /\ call.name = <<"/", "\t", "a">>
    /\ answer = <<"_", "_", "a">>

\* The lines of the text read, by position (position p is index p - 1 of the
\* code), that start with #EXTINF:, are not the first line and follow a line
\* that starts with http; those of them that hold a comma; a set of
\* positions in ascending order.
MetadataLines ==
    {p \in 2..Len(content) :
        starts_with(content[p], EXTINF) /\ starts_with(content[p - 1], HTTP)}

EmittingLines == {p \in MetadataLines : find(content[p], Comma) # 0}

Ascending(S) == SelectSeq([p \in 1..Len(content) |-> p], LAMBDA p : p \in S)

\* C19 as stated: a channel is emitted for the metadata line at index i if and
\* only if i >= 1, the line begins with #EXTINF: and the line at index i - 1
\* begins with http; that preceding line, trimmed, is the channel's url; the
\* line at index 0 is never treated as a metadata line.
C19_EmittedIffPaired ==
    result = "Ok" =>
        LET e == Ascending(MetadataLines) IN
        /\ Len(channels) = Len(e)
        /\ \A k \in 1..Len(e) : channels[k].url = trim(content[e[k] - 1])

\* C19 amended: a channel is emitted for the metadata line at index i if and
\* only if i >= 1, the line begins with #EXTINF: and contains a comma, and the
\* line at index i - 1 begins with http; that preceding line, trimmed, is the
\* channel's url; the line at index 0 is never treated as a metadata line.
C19_EmittedIffPairedWithComma ==
    result = "Ok" =>
        LET e == Ascending(EmittingLines) IN
        /\ Len(channels) = Len(e)
        /\ \A k \in 1..Len(e) : channels[k].url = trim(content[e[k] - 1])

\* A text whose first line is a metadata line followed by a url line, and
\* whose third line is a metadata line, has loaded: one channel, that of the
\* third line.
C19_Witness ==
    /\ result = "Ok"
    /\ content = <<SimpleLine, UrlLine, SimpleLine>>
    /\ Len(channels) = 1
    /\ channels[1].url = UrlLine

\* The channel the configured strategy makes of one metadata line and the
\* line before it.
ChannelOfLine(p) ==
    LET pair == <<content[p - 1], content[p]>> IN
    IF parallel_processing THEN parse_parallel(pair) ELSE parse_sequential(pair)

\* C20: the channel sequence preserves input order and each emitting metadata
\* line contributes exactly one channel: the k-th channel is the one channel of
\* the k-th emitting metadata line, so a channel whose metadata line is at a
\* lower index is at a lower position.
C20_InputOrderPreserved ==
    result = "Ok" =>
        LET e == Ascending(EmittingLines) IN
        /\ Len(channels) = Len(e)
        /\ \A k \in 1..Len(e) : <<channels[k]>> = ChannelOfLine(e[k])

\* A text with two emitting metadata lines of different channels has loaded,
\* the channel of the lower line first.
C20_Witness ==
    /\ result = "Ok"
    /\ content = TwoUrls
    /\ Len(channels) = 2
    /\ channels[1].url = UrlLine
    /\ channels[2].url = <<HTTP, "://a/b">>
    /\ channels[1] # channels[2]

\* C21: every channel of the sequence after a load has a non-empty url, which
\* begins with http and is the trimmed text of the line the channel's
\* metadata line was paired with.
C21_UrlOfPairedLine ==
    result = "Ok" =>
        LET e == Ascending(EmittingLines) IN
        \A k \in 1..Len(channels) :
            /\ channels[k].url # <<>>
            /\ starts_with(channels[k].url, HTTP)
            /\ k <= Len(e)
            /\ channels[k].url = trim(content[e[k] - 1])

\* A text whose url line ends with a blank has loaded: the channel's url is
\* the line without the blank.
C21_Witness ==
    /\ result = "Ok"
    /\ content = PaddedExample
    /\ Len(channels) = 1
    /\ channels[1].url = UrlLine
    /\ channels[1].url # content[1]

\* What a metadata line says of the name: the value of the first
\* tvg-name="value" anywhere in the line, and the trimmed text after the
\* line's last comma.
TvgNameOf(line) ==
    LET S == attr_starts(line, 1, TvgName) IN
    IF S = {} THEN None
    ELSE LET j == CHOOSE x \in S : \A y \in S : x <= y
         IN Some(SubSeq(line, j + 2, closing_quote(line, j + 1) - 1))

LastComma(line) == Max({0} \cup {i \in 1..Len(line) : line[i] = Comma})

CommaLabel(line) == trim(SubSeq(line, LastComma(line) + 1, Len(line)))

HasAttributes(line) == \E k \in 1..Len(AttrKeys) : attr_starts(line, 1, AttrKeys[k]) # {}

\* C22: a channel whose metadata line gives no usable tvg-name and no text
\* after the comma is named "Unknown Channel", and no channel of a load has an
\* empty name.
C22_PlaceholderName ==
    result = "Ok" =>
        LET e == Ascending(EmittingLines) IN
        \A k \in 1..Len(channels) :
            /\ channels[k].name # <<>>
            /\ (/\ k <= Len(e)
                /\ TvgNameOf(content[e[k]]) \in {None, Some(<<>>)}
                /\ CommaLabel(content[e[k]]) = <<>>)
               => channels[k].name = UnknownChannel

\* C23: a channel whose metadata line has a non-empty tvg-name is named by
\* that value; one whose line has an empty tvg-name is named by the
\* comma-derived label.
C23_TvgNameOverrides ==
    result = "Ok" =>
        LET e == Ascending(EmittingLines) IN
        \A k \in 1..Len(channels) :
            (k <= Len(e) /\ TvgNameOf(content[e[k]]) # None) =>
                LET tvg_name == TvgNameOf(content[e[k]])[1] IN
                channels[k].name =
                    IF tvg_name # <<>> THEN tvg_name ELSE CommaLabel(content[e[k]])

\* C24: a channel whose metadata line has attributes and no tvg-name is named
\* by the trimmed text after the last comma of the line, however many commas
\* the line has.
C24_NameAfterLastComma ==
    result = "Ok" =>
        LET e == Ascending(EmittingLines) IN
        \A k \in 1..Len(channels) :
            (/\ k <= Len(e)
             /\ HasAttributes(content[e[k]])
             /\ TvgNameOf(content[e[k]]) = None)
            => channels[k].name = CommaLabel(content[e[k]])

\* C25: truncate_string(s, max_len) returns s when its length is at most
\* max_len, and otherwise a string of length at most max_len that ends with
\* "...", for every max_len, those under 3 included.
C25_TruncateWithinBound ==
    (call.op = "truncate_string" /\ call.returned) =>
        /\ ~answer.panicked
        /\ str_len(call.s) <= call.max_len => answer.value = call.s
        /\ str_len(call.s) > call.max_len =>
            /\ str_len(answer.value) <= call.max_len
            /\ Len(answer.value) >= 3
            /\ SubSeq(answer.value, Len(answer.value) - 2, Len(answer.value))
                   = <<".", ".", ".">>

\* C26: after any loads, a channel that get_channel_by_name(n) returns is named
\* n, and every position stored in channel_map or under a group is a position
\* of the current channel sequence whose channel has that name or that group.
C26_StoredPositionsValid ==
    /\ (call.op = "get_channel_by_name" /\ answer # None) => answer[1].name = call.name
    /\ \A n \in DOMAIN channel_map :
          /\ channel_map[n] < Len(channels)
          /\ channels[channel_map[n] + 1].name = n
    /\ \A g \in DOMAIN groups : \A k \in 1..Len(groups[g]) :
          /\ groups[g][k] < Len(channels)
          /\ channels[groups[g][k] + 1].group = Some(g)

\* The positions of the current channels the matcher of the last search
\* accepted, and the place of such a position in the ranking by descending
\* score and, for equal scores, ascending position.
Matching == {i \in Positions : call.score[channels[i].name] # None}

ScoreAt(i) == call.score[channels[i].name][1]

Rank(i) ==
    1 + Cardinality({j \in Matching :
            ScoreAt(j) > ScoreAt(i) \/ (ScoreAt(j) = ScoreAt(i) /\ j < i)})

\* C27: search_channels breaks ties by sequence order: matching channels of
\* equal score are listed in the order they have in the channel sequence, so
\* the result is the one ranking by descending score and then ascending
\* position, the same for the same query on the same snapshot.
C27_TiesInSequenceOrder ==
    call.op = "search_channels" =>
        /\ Len(answer) = Cardinality(Matching)
        /\ \A i \in Matching : answer[Rank(i)] = channels[i]

\* A search has returned two different channels of equal score, in the order
\* of the channel sequence.
C27_Witness ==
    /\ call.op = "search_channels"
    /\ Len(channels) = 2
    /\ channels[1] # channels[2]
    /\ call.score[channels[1].name] = Some(1)
    /\ call.score[channels[2].name] = Some(1)
    /\ answer = channels

\* C28: when play_channel has returned, with success or with an error, no
\* player process is recorded; a player process is spawned only when none is
\* recorded; when run_interactive_with_shutdown has returned none is
\* recorded; and once the flag is seen false at the top of the loop, nothing
\* more is selected or played.
C28_NoProcessLeftRecorded ==
    [][ /\ pc' = "played" => current_player_process' = None
        /\ pc' = "returned" => current_player_process' = None
        /\ (pc = "spawn" /\ pc' = "wait") => current_player_process = None
        /\ (pc = "loop" /\ ~running) => pc' \in {"loop", "cleanup"}
        /\ pc \in {"cleanup", "returned"} => pc' \in {"cleanup", "returned"}
      ]_vars

\* What a call that adds `name` makes of a list cut at `limit`: no name
\* twice, at most `limit` names, `name` first, and behind it the names of the
\* list before, without `name`, in the order they had.
NoDuplicates(list) == \A i, j \in 1..Len(list) : list[i] = list[j] => i = j

MostRecentFirst(before, after, name, limit) ==
    /\ NoDuplicates(after)
    /\ Len(after) <= limit
    /\ Len(after) >= 1
    /\ after[1] = name
    /\ LET others == SelectSeq(before, LAMBDA n : n # name) IN
       /\ Len(after) - 1 <= Len(others)
       /\ Tail(after) = SubSeq(others, 1, Len(after) - 1)

\* C29: after any add_recent_channel calls recent_channels has no name twice,
\* at most 20 names, the name added last at position 0 and the other names
\* behind it, most recently added first; the same for the history under
\* add_to_history with 50.
C29_MostRecentFirst ==
    [][ /\ call'.op = "add_recent_channel" =>
            MostRecentFirst(recent_channels, recent_channels', call'.channel_name, 20)
        /\ call'.op = "add_to_history" =>
            MostRecentFirst(history, history', call'.channel_name, 50)
      ]_vars

\* A name in the list has been added again to a full list that has already
\* lost names at its end.
C29_Witness ==
    /\ call.op = "add_recent_channel"
    /\ call.channel_name = 1
    /\ Len(recent_channels) = 20
    /\ recent_channels[1] = 1
    /\ recent_channels[2] > 21
    /\ recent_channels[20] > 2

\* C30: for every max_attempts, 0 included, retry_async invokes the operation
\* at most max_attempts times, stops at the first Ok and returns it, waits
\* between two attempts and not after the last, returns Err with the error of
\* the last attempt when all fail, and never panics.
C30_RetryAlwaysReturns ==
    retry.state # "idle" =>
        LET n == Len(retry.results) IN
        /\ n <= retry.max_attempts
        /\ \A k \in 1..(n - 1) : ~retry.results[k].ok
        /\ retry.state # "panicked"
        /\ retry.state = "returned" =>
            /\ n >= 1
            /\ answer = retry.results[n]
            /\ retry.sleeps = n - 1
            /\ ~answer.ok => n = retry.max_attempts

====
